---- MODULE Spec2Model ----
(***************************************************************************)
(* Model of constraint_manager/interface.py: the Interface class, its      *)
(* parser (parse_constraints / parse_yaml), the substitution engine        *)
(* (variable_sub / _variable_sub), the expression evaluator                *)
(* (eval_expressions) and the generation pipeline (gen_constraints).       *)
(*                                                                         *)
(* A Python str is a sequence of one-character strings.  A Python dict is  *)
(* a sequence of [name, value] records in insertion order (dicts iterate   *)
(* in insertion order), with pairwise distinct names.                      *)
(***************************************************************************)
EXTENDS Integers, Sequences, FiniteSets, TLC

VARIABLES
    \* ---- expression evaluator run (SpecEval) ----
    constraint,      \* eval_expressions' argument
    evaluated,       \* what the first call returned / raised
    reevaluated,     \* what a second call, on the first one's output, returned
    epc,             \* "start" | "once" | "raised" | "twice"
    \* ---- the Interface object ----
    part_constants,  \* self.part_constants
    dsn_variables,   \* self.dsn_variables
    signal_groups,   \* self.signal_groups
    signals,         \* self.signals
    constraints,     \* self.constraints : the parsed Constraint objects
    \* ---- substitution run (SpecSub) ----
    raw_constraint,  \* variable_sub's argument
    substituted,     \* variable_sub's return value
    spc,             \* "start" | "done"
    \* ---- parse run (SpecParse) ----
    from_yaml,       \* yaml_dict['constraints'] : kind -> name -> props
    kind_idx,        \* outer loop position of parse_constraints
    name_idx,        \* inner loop position of parse_constraints
    ppc,             \* "parsing" | "loaded" | "raised"
    \* ---- generation run (Spec) ----
    gen_idx,         \* loop position of gen_constraints
    gen_lines,       \* the local list `constraints` of gen_constraints
    gpc              \* "running" | "returned" | "raised"

vars == <<constraint, evaluated, reevaluated, epc,
          part_constants, dsn_variables, signal_groups, signals, constraints,
          raw_constraint, substituted, spc,
          from_yaml, kind_idx, name_idx, ppc,
          gen_idx, gen_lines, gpc>>

(***************************************************************************)
(* Python values                                                           *)
(***************************************************************************)
\* a Python object as far as str() tells objects apart: None, or a str
PyNone   == [type |-> "NoneType", repr |-> <<>>]
PyStr(s) == [type |-> "str", repr |-> s]

\* str(obj): "None" for None, the string itself for a str
py_str(obj) == IF obj.type = "NoneType" THEN <<"N", "o", "n", "e">> ELSE obj.repr

\* a call's outcome: a returned value, or the exception that left it
Returned(v) == [exc |-> "none", val |-> v]
Raised(e)   == [exc |-> e, val |-> <<>>]

Digits   == {"0", "1", "2", "3", "4", "5", "6", "7", "8", "9"}
\* the character class [0-9\.] of the pattern
NumChars == Digits \cup {"."}
\* the character class [\+\*\-/] of the pattern
OpChars  == {"+", "*", "-", "/"}

DigitVal == ("0" :> 0) @@ ("1" :> 1) @@ ("2" :> 2) @@ ("3" :> 3) @@ ("4" :> 4) @@
            ("5" :> 5) @@ ("6" :> 6) @@ ("7" :> 7) @@ ("8" :> 8) @@ ("9" :> 9)
DigitChr == <<"0", "1", "2", "3", "4", "5", "6", "7", "8", "9">>

Min(S) == CHOOSE x \in S : \A y \in S : x <= y

RECURSIVE Pow10(_)
Pow10(k) == IF k = 0 THEN 1 ELSE 10 * Pow10(k - 1)

\* s[i..j] as a string (empty when j < i)
Slice(s, i, j) == IF j < i THEN <<>> ELSE SubSeq(s, i, j)

\* s[i:].startswith(t)
StartsWithAt(s, i, t) ==
    /\ i + Len(t) - 1 <= Len(s)
    /\ \A k \in 1..Len(t) : s[i + k - 1] = t[k]

\* the first index >= i of s whose character is outside C (past the end if none)
RunEnd(s, i, C) ==
    IF i > Len(s) THEN i
    ELSE Min({k \in i..(Len(s) + 1) : k = Len(s) + 1 \/ s[k] \notin C})

(***************************************************************************)
(* str.replace(old, new): every non-overlapping occurrence, leftmost first *)
(***************************************************************************)
RECURSIVE ReplaceFrom(_, _, _, _)
ReplaceFrom(s, i, old, new) ==
    IF i > Len(s) THEN <<>>
    ELSE IF StartsWithAt(s, i, old)
         THEN new \o ReplaceFrom(s, i + Len(old), old, new)
         ELSE <<s[i]>> \o ReplaceFrom(s, i + 1, old, new)

str_replace(s, old, new) == ReplaceFrom(s, 1, old, new)

(***************************************************************************)
(* str() of an int                                                         *)
(***************************************************************************)
RECURSIVE NatStr(_)
NatStr(n) == IF n < 10 THEN <<DigitChr[n + 1]>>
             ELSE NatStr(n \div 10) \o <<DigitChr[(n % 10) + 1]>>

(***************************************************************************)
(* The pattern  \-?[0-9\.]+ *[\+\*\-/] *\-?[0-9\.]+  (interface.py:281).   *)
(* Every quantifier is greedy and the character classes met at each        *)
(* boundary are disjoint, so the backtracking matcher has one candidate    *)
(* per start position: the maximal runs.                                   *)
(***************************************************************************)
\* where the parts of a match starting at p would lie: the first number run
\* is s[n1..e1-1], the operator is s[op], the second run is s[n2..e2-1]
Parts5(s, n1, e1, op, n2) ==
    [n1 |-> n1, e1 |-> e1, op |-> op, n2 |-> n2, e2 |-> RunEnd(s, n2, NumChars)]
Parts4(s, n1, e1, op, sp) ==
    Parts5(s, n1, e1, op, IF sp <= Len(s) /\ s[sp] = "-" THEN sp + 1 ELSE sp)
Parts3(s, n1, e1, op) == Parts4(s, n1, e1, op, RunEnd(s, op + 1, {" "}))
Parts2(s, n1, e1) == Parts3(s, n1, e1, RunEnd(s, e1, {" "}))
Parts1(s, n1) == Parts2(s, n1, RunEnd(s, n1, NumChars))
PatternParts(s, p) == Parts1(s, IF p <= Len(s) /\ s[p] = "-" THEN p + 1 ELSE p)

\* whether the parts q make a match of s
IsMatch(s, q) ==
    /\ q.e1 > q.n1
    /\ q.op <= Len(s)
    /\ s[q.op] \in OpChars
    /\ q.e2 > q.n2

\* the index of the last character of the match whose parts are q, 0 if none
MatchEndOf(s, q) == IF IsMatch(s, q) THEN q.e2 - 1 ELSE 0

\* the index of the last character of the match starting at p, 0 if none
MatchEnd(s, p) == MatchEndOf(s, PatternParts(s, p))

\* pattern.findall(constraint): the non-overlapping matches, left to right
RECURSIVE FindallFrom(_, _)
FindallStep(s, p, m) ==
    IF m > 0
    THEN <<Slice(s, p, m)>> \o FindallFrom(s, m + 1)
    ELSE FindallFrom(s, p + 1)
FindallFrom(s, p) ==
    IF p > Len(s) THEN <<>> ELSE FindallStep(s, p, MatchEnd(s, p))

findall(s) == FindallFrom(s, 1)

(***************************************************************************)
(* eval(match): Python's evaluation of one matched binary expression       *)
(***************************************************************************)
CountDots(run) == Cardinality({k \in 1..Len(run) : run[k] = "."})

\* how Python's tokenizer reads a run of [0-9.] characters
LiteralKind(run) ==
    LET dots == CountDots(run)
    IN  IF dots = 0
        THEN IF Len(run) > 1 /\ run[1] = "0" /\ \E k \in 1..Len(run) : run[k] # "0"
             THEN "invalid"      \* leading zeros in a decimal integer literal
             ELSE "int"
        ELSE IF dots = 1
        THEN IF Len(run) = 1 THEN "invalid" ELSE "float"
        ELSE IF run = <<".", ".", ".">> THEN "ellipsis" ELSE "invalid"

\* the digits of a literal, read as one natural number (the point dropped)
RECURSIVE Mantissa(_)
Mantissa(run) ==
    IF run = <<>> THEN 0
    ELSE LET last == run[Len(run)]
             rest == SubSeq(run, 1, Len(run) - 1)
         IN  IF last = "." THEN Mantissa(rest)
             ELSE 10 * Mantissa(rest) + DigitVal[last]

\* the number of digits after the point
Decimals(run) ==
    IF CountDots(run) = 0 THEN 0
    ELSE Len(run) - CHOOSE k \in 1..Len(run) : run[k] = "."

Abs(x) == IF x < 0 THEN -x ELSE x
Max(a, b) == IF a >= b THEN a ELSE b

\* the fraction digits of round(x, 2), c = hundredths: "0", "5", "25"
FracStr(c) ==
    IF c % 10 = 0 THEN <<DigitChr[(c \div 10) + 1]>>
    ELSE <<DigitChr[(c \div 10) + 1], DigitChr[(c % 10) + 1]>>

\* q + r/den rounded to the nearest integer, halves to the even one
RoundHalfEven(q, r, den) ==
    IF 2 * r > den THEN q + 1
    ELSE IF 2 * r = den THEN q + (q % 2)
    ELSE q

\* the digits of a float whose hundredths, rounded, are n
HundredthsStr(n) == NatStr(n \div 100) \o <<".">> \o FracStr(n % 100)

\* str(round(x, 2)) of the float x = num/den (den > 0); negzero: x is -0.0.
\* round() rounds the double nearest to num/den, which this exact rounding
\* matches unless num/den lies exactly halfway between two hundredths and has
\* no exact double (2.675); no string drawn below evaluates to such a value.
FloatStr(num, den, negzero) ==
    (IF num < 0 \/ negzero THEN <<"-">> ELSE <<>>)
    \o HundredthsStr(RoundHalfEven((Abs(num) * 100) \div den, (Abs(num) * 100) % den, den))

\* str(x) of the int x
IntStr(x) == IF x < 0 THEN <<"-">> \o NatStr(-x) ELSE NatStr(x)

\* one operand as Python reads it: the literal's kind, its digits m, the
\* number d of digits after the point, and whether a minus sign precedes it
Operand(run, neg) ==
    [kind |-> LiteralKind(run), m |-> Mantissa(run), d |-> Decimals(run), neg |-> neg]

\* the signed digits of an operand
Signed(x) == IF x.neg THEN -x.m ELSE x.m
\* the sign bit of an operand once converted to float (the int -0 is 0)
SignBit(x) == x.neg /\ (x.kind = "float" \/ x.m # 0)

\* the exact value num/den (den > 0) of x op y, for a divisor that is not 0
Numerator(x, op, y) ==
    CASE op = "+" -> Signed(x) * Pow10(Max(x.d, y.d) - x.d)
                     + Signed(y) * Pow10(Max(x.d, y.d) - y.d)
      [] op = "-" -> Signed(x) * Pow10(Max(x.d, y.d) - x.d)
                     - Signed(y) * Pow10(Max(x.d, y.d) - y.d)
      [] op = "*" -> Signed(x) * Signed(y)
      [] op = "/" -> IF y.neg THEN -(Signed(x) * Pow10(y.d)) ELSE Signed(x) * Pow10(y.d)
Denominator(x, op, y) ==
    CASE op \in {"+", "-"} -> Pow10(Max(x.d, y.d))
      [] op = "*" -> Pow10(x.d + y.d)
      [] op = "/" -> y.m * Pow10(x.d)

\* whether the float x op y is the IEEE negative zero
NegZero(x, op, y) ==
    /\ Numerator(x, op, y) = 0
    /\ CASE op = "+" -> x.m = 0 /\ y.m = 0 /\ SignBit(x) /\ SignBit(y)
         [] op = "-" -> x.m = 0 /\ y.m = 0 /\ SignBit(x) /\ ~SignBit(y)
         [] OTHER    -> SignBit(x) # SignBit(y)

\* str(round(x op y, 2)), or the exception the evaluation raises
EvalBinary(x, op, y) ==
    IF x.kind = "invalid" \/ y.kind = "invalid" THEN Raised("SyntaxError")
    ELSE IF x.kind = "ellipsis" \/ y.kind = "ellipsis" THEN Raised("TypeError")
    ELSE IF op = "/" /\ y.m = 0 THEN Raised("ZeroDivisionError")
    ELSE IF x.kind = "float" \/ y.kind = "float" \/ op = "/"
    THEN Returned(FloatStr(Numerator(x, op, y), Denominator(x, op, y), NegZero(x, op, y)))
    ELSE Returned(IntStr(Numerator(x, op, y)))

\* the match read through its parts q
EvalParts(match, q) ==
    EvalBinary(Operand(Slice(match, q.n1, q.e1 - 1), q.n1 > 1),
               match[q.op],
               Operand(Slice(match, q.n2, q.e2 - 1), match[q.n2 - 1] = "-" /\ q.n2 - 1 > q.op))

\* str(round(eval(match), 2)), or the exception eval raises (interface.py:284)
EvalMatch(match) == EvalParts(match, PatternParts(match, 1))

(***************************************************************************)
(* Interface.eval_expressions (interface.py:272-287)                       *)
(***************************************************************************)
\* the for loop over the matches found in the ORIGINAL string; c is the
\* string as rewritten so far, e what eval made of matches[i]
RECURSIVE EvalLoop(_, _, _)
\* (the loop body had it caught the exception and gone on to the next match)
EvalBodySwallow(c, matches, i, e) ==
    IF e.exc # "none" THEN EvalLoop(c, matches, i + 1)
    ELSE EvalLoop(str_replace(c, matches[i], e.val), matches, i + 1)
EvalBody(c, matches, i, e) ==
    IF e.exc # "none" THEN Raised(e.exc)
    ELSE EvalLoop(str_replace(c, matches[i], e.val), matches, i + 1)
\* (the loop had the function return `evaluated`, the last folded value,
\* a name unbound when nothing matched)
EvalLoopLastValue(c, matches, i) ==
    IF i > Len(matches)
    THEN IF matches = <<>> THEN Raised("UnboundLocalError")
         ELSE Returned(EvalMatch(matches[Len(matches)]).val)
    ELSE EvalBody(c, matches, i, EvalMatch(matches[i]))
EvalLoop(c, matches, i) ==
    IF i > Len(matches) THEN Returned(c)
    ELSE EvalBody(c, matches, i, EvalMatch(matches[i]))

eval_expressions(c) == EvalLoop(c, findall(c), 1)

(***************************************************************************)
(* Interface.variable_sub / _variable_sub (interface.py:289-322)           *)
(***************************************************************************)
\* getattr(self, prop)
GetAttr(prop) ==
    CASE prop = "part_constants" -> part_constants
      [] prop = "dsn_variables"  -> dsn_variables
      [] prop = "signal_groups"  -> signal_groups
      [] prop = "signals"        -> signals

\* the loop of _variable_sub over the items of one dict, from item i on
RECURSIVE SubLoop(_, _, _)
SubLoop(c, items, i) ==
    IF i > Len(items) THEN c
    ELSE SubLoop(str_replace(c, <<"$">> \o items[i].name, py_str(items[i].value)),
                 items, i + 1)

_variable_sub(raw, prop) == SubLoop(raw, GetAttr(prop), 1)

\* the fixed order of the four passes
PropOrder == <<"part_constants", "dsn_variables", "signal_groups", "signals">>

RECURSIVE PropLoop(_, _)
PropLoop(c, i) ==
    IF i > Len(PropOrder) THEN c
    ELSE PropLoop(_variable_sub(c, PropOrder[i]), i + 1)

variable_sub(raw) == PropLoop(raw, 1)

(***************************************************************************)
(* Inputs                                                                  *)
(***************************************************************************)
\* every string over the characters A of length at most n
RECURSIVE StrsUpTo(_, _)
StrsUpTo(A, n) ==
    IF n = 0 THEN {<<>>}
    ELSE LET S == StrsUpTo(A, n - 1)
         IN  S \cup {Append(x, a) : x \in S, a \in A}

\* the longest string handed to eval_expressions
MaxLen == 7
\* the characters such a string is made of
EvalChars == {"1", "0", "-", "/"}

\* the variables a run leaves alone
NoInterface ==
    /\ part_constants = <<>>
    /\ dsn_variables = <<>>
    /\ signal_groups = <<>>
    /\ signals = <<>>
    /\ constraints = <<>>
NoEval  == constraint = <<>> /\ evaluated = Returned(<<>>)
           /\ reevaluated = Returned(<<>>) /\ epc = "idle"
NoSub   == raw_constraint = <<>> /\ substituted = <<>> /\ spc = "idle"
NoParse == from_yaml = <<>> /\ kind_idx = 0 /\ name_idx = 0 /\ ppc = "idle"
NoGen   == gen_idx = 0 /\ gen_lines = <<>> /\ gpc = "idle"

interface_vars == <<part_constants, dsn_variables, signal_groups, signals, constraints>>
eval_vars  == <<constraint, evaluated, reevaluated, epc>>
sub_vars   == <<raw_constraint, substituted, spc>>
parse_vars == <<from_yaml, kind_idx, name_idx, ppc>>
gen_vars   == <<gen_idx, gen_lines, gpc>>

(***************************************************************************)
(* SpecEval: eval_expressions called on a string, then on its own output   *)
(***************************************************************************)
InitEval ==
    /\ constraint \in StrsUpTo(EvalChars, MaxLen)
    /\ evaluated = Returned(<<>>)
    /\ reevaluated = Returned(<<>>)
    /\ epc = "start"
    /\ NoInterface /\ NoSub /\ NoParse /\ NoGen

\* the call returns
EvalReturns ==
    /\ epc = "start"
    /\ eval_expressions(constraint).exc = "none"
    /\ evaluated' = eval_expressions(constraint)
    /\ epc' = "once"
    /\ UNCHANGED <<constraint, reevaluated, interface_vars, sub_vars, parse_vars, gen_vars>>

\* the call is left by the exception eval raised
EvalRaises ==
    /\ epc = "start"
    /\ eval_expressions(constraint).exc # "none"
    /\ evaluated' = eval_expressions(constraint)
    /\ epc' = "raised"
    /\ UNCHANGED <<constraint, reevaluated, interface_vars, sub_vars, parse_vars, gen_vars>>

\* a second call, on what the first one returned
EvalAgain ==
    /\ epc = "once"
    /\ reevaluated' = eval_expressions(evaluated.val)
    /\ epc' = "twice"
    /\ UNCHANGED <<constraint, evaluated, interface_vars, sub_vars, parse_vars, gen_vars>>

NextEval == EvalReturns \/ EvalRaises \/ EvalAgain

SpecEval == InitEval /\ [][NextEval]_vars

(***************************************************************************)
(* SpecSub: variable_sub called on a template, for an Interface whose      *)
(* variables have been given values                                        *)
(***************************************************************************)
\* the variable names of the interface definition
VarNames == {<<"a">>, <<"a", "b">>}
\* what the surrounding workflow stored in .value (None: never set)
VarValues == {PyNone, PyStr(<<"1">>), PyStr(<<"2">>)}
\* the characters of a name (no delimiter ends a token but the lack of one)
NameChars == {"a", "b"}
\* the characters a template is made of
TplChars == {"$", "a", "b", " "}
\* the longest template
MaxTplLen == 3
\* the most variable records the four dicts hold together
MaxVars == 3

\* the dicts of at most n items: names pairwise distinct, any insertion order
DictsUpTo(n) ==
    LET Items == [name : VarNames, value : VarValues]
        Seqs  == UNION {[1..k -> Items] : k \in 0..n}
    IN  {d \in Seqs : \A i, j \in 1..Len(d) : i # j => d[i].name # d[j].name}

InitSub ==
    /\ part_constants \in DictsUpTo(Cardinality(VarNames))
    /\ dsn_variables \in DictsUpTo(MaxVars - Len(part_constants))
    /\ signal_groups \in DictsUpTo(MaxVars - Len(part_constants) - Len(dsn_variables))
    /\ signals \in DictsUpTo(MaxVars - Len(part_constants) - Len(dsn_variables)
                                     - Len(signal_groups))
    /\ constraints = <<>>
    /\ raw_constraint \in StrsUpTo(TplChars, MaxTplLen)
    /\ substituted = <<>>
    /\ spc = "start"
    /\ NoEval /\ NoParse /\ NoGen

Substitute ==
    /\ spc = "start"
    /\ substituted' = variable_sub(raw_constraint)
    /\ spc' = "done"
    /\ UNCHANGED <<raw_constraint, interface_vars, eval_vars, parse_vars, gen_vars>>

NextSub == Substitute

SpecSub == InitSub /\ [][NextSub]_vars

(***************************************************************************)
(* The constraint module (imported at interface.py:10-11)                  *)
(***************************************************************************)
\* the kinds the Constraint Kind Registry knows
RegisteredKinds == {"kind_a", "kind_b"}

\* constraint_factory(kind): the constructor registered for kind, or the
\* "unknown constraint kind" error
constraint_factory(kind) ==
    IF kind \in RegisteredKinds THEN Returned(kind) ELSE Raised("UnknownKindError")

\* concrete_constraint(name, props): a Constraint owning its name and props
Constraint(kind, name, props) == [kind |-> kind, name |-> name, props |-> props]

\* constraint.gen_constraint(): the template string, or None ("not
\* applicable") when the props lack what the variant requires; the props
\* are modelled by what the variant makes of them
gen_constraint(c) == c.props

(***************************************************************************)
(* SpecParse: Interface.__init__ -> parse_yaml -> parse_constraints        *)
(* (interface.py:89-92, 223-252)                                           *)
(***************************************************************************)
\* the kinds a definition file may name
YamlKinds == RegisteredKinds \cup {"bogus"}
\* the constraint names a definition file may use under one kind
YamlNames == {"c1", "c2"}
\* the props a definition file may give a constraint
YamlProps == {PyNone, PyStr(<<"$", "a">>)}
\* the most kinds in the constraints section
MaxKinds == 2

\* the sequences over S without repetition, of length at most n (the items
\* of a dict keyed by S, in file order)
DistinctSeqs(S, n) ==
    {q \in UNION {[1..k -> S] : k \in 0..n} :
        \A i, j \in 1..Len(q) : i # j => q[i] # q[j]}

\* the inner dicts: name -> props
YamlConstraintDicts ==
    UNION {[1..Len(ns) -> YamlProps] \X {ns} : ns \in DistinctSeqs(YamlNames, Cardinality(YamlNames))}

\* the constraints sections: kind -> (name -> props), as a sequence of
\* [kind, names, props] in file order
YamlConstraints ==
    UNION {{[k \in 1..Len(ks) |-> [kind |-> ks[k], names |-> ds[k][2], props |-> ds[k][1]]] :
              ds \in [1..Len(ks) -> YamlConstraintDicts]} :
           ks \in DistinctSeqs(YamlKinds, MaxKinds)}

\* the part_constants and dsn_variables sections of the definition file
YamlPartConstants == <<<<"a">>>>
YamlDsnVariables  == <<<<"a", "b">>>>

\* parse_part_constants, parse_dsn_variables: one record per name, .value None
parse_variables(names) == [i \in 1..Len(names) |-> [name |-> names[i], value |-> PyNone]]

InitParse ==
    /\ from_yaml \in YamlConstraints
    /\ part_constants = parse_variables(YamlPartConstants)
    /\ dsn_variables = parse_variables(YamlDsnVariables)
    /\ signals = <<>>
    /\ signal_groups = <<>>
    /\ constraints = <<>>
    /\ kind_idx = 1
    /\ name_idx = 1
    /\ ppc = "parsing"
    /\ NoEval /\ NoSub /\ NoGen

\* one pass of the inner loop body: look the kind up, construct, append
ParseAppend ==
    /\ ppc = "parsing"
    /\ kind_idx <= Len(from_yaml)
    /\ name_idx <= Len(from_yaml[kind_idx].names)
    /\ LET group == from_yaml[kind_idx]
           concrete_constraint == constraint_factory(group.kind)
       IN  /\ concrete_constraint.exc = "none"
           /\ constraints' = Append(constraints,
                  Constraint(concrete_constraint.val, group.names[name_idx],
                             group.props[name_idx]))
    /\ name_idx' = name_idx + 1
    /\ UNCHANGED <<from_yaml, kind_idx, ppc, part_constants, dsn_variables,
                   signal_groups, signals, eval_vars, sub_vars, gen_vars>>

\* the lookup raises: nothing catches it in parse_constraints, parse_yaml or
\* __init__, so no Interface comes to exist
ParseRaise ==
    /\ ppc = "parsing"
    /\ kind_idx <= Len(from_yaml)
    /\ name_idx <= Len(from_yaml[kind_idx].names)
    /\ constraint_factory(from_yaml[kind_idx].kind).exc # "none"
    /\ ppc' = "raised"
    /\ constraints' = <<>>
    /\ part_constants' = <<>>
    /\ dsn_variables' = <<>>
    /\ UNCHANGED <<from_yaml, kind_idx, name_idx, signal_groups, signals,
                   eval_vars, sub_vars, gen_vars>>

\* the inner loop is exhausted: the outer loop takes the next kind
ParseNextKind ==
    /\ ppc = "parsing"
    /\ kind_idx <= Len(from_yaml)
    /\ name_idx > Len(from_yaml[kind_idx].names)
    /\ kind_idx' = kind_idx + 1
    /\ name_idx' = 1
    /\ UNCHANGED <<from_yaml, ppc, interface_vars, eval_vars, sub_vars, gen_vars>>

\* parse_constraints returns; parse_yaml stores the list; __init__ returns
ParseReturn ==
    /\ ppc = "parsing"
    /\ kind_idx > Len(from_yaml)
    /\ ppc' = "loaded"
    /\ UNCHANGED <<from_yaml, kind_idx, name_idx, interface_vars, eval_vars,
                   sub_vars, gen_vars>>

NextParse == ParseAppend \/ ParseRaise \/ ParseNextKind \/ ParseReturn

SpecParse == InitParse /\ [][NextParse]_vars

(***************************************************************************)
(* Spec: Interface.gen_constraints (interface.py:254-270) on a loaded      *)
(* Interface whose variables have been given values                        *)
(***************************************************************************)
\* the most constraints of the interface
MaxConstraints == 3

\* the templates the constraints of the interface produce
TplAdd == <<"$", "a", " ", "+", " ", "$", "b">>
TplSub == <<"$", "a", " ", "-", " ", "$", "b">>
TplDiv == <<"$", "a", "/", "$", "b">>
TplTwo == <<"$", "a", "*", "2", " ", "$", "b", "*", "2">>
GenProps == {PyNone, PyStr(TplAdd), PyStr(TplSub), PyStr(TplDiv), PyStr(TplTwo)}

\* the values given to part constant a and design variable b
GenValuesA == {<<"1", "0", ".", "0">>, <<"3">>, <<"1">>}
GenValuesB == {<<"2", ".", "5">>, <<"1", ".", "2", "5">>, <<"0">>, <<"1", "1">>}

\* the name of the i-th constraint
RECURSIVE ConstraintName(_)
ConstraintName(i) == IF i = 0 THEN <<>> ELSE Append(ConstraintName(i - 1), "c")

Init ==
    /\ \E va \in GenValuesA : part_constants = <<[name |-> <<"a">>, value |-> PyStr(va)]>>
    /\ \E vb \in GenValuesB : dsn_variables = <<[name |-> <<"b">>, value |-> PyStr(vb)]>>
    /\ signal_groups = <<>>
    /\ signals = <<>>
    /\ \E ps \in UNION {[1..n -> GenProps] : n \in 0..MaxConstraints} :
          constraints = [i \in 1..Len(ps) |-> Constraint("kind_a", ConstraintName(i), ps[i])]
    /\ gen_idx = 1
    /\ gen_lines = <<>>
    /\ gpc = "running"
    /\ NoEval /\ NoSub /\ NoParse

\* (the None test had it been missing and str(None) appended as a line)
GenSkipEmitsNone ==
    /\ gpc = "running"
    /\ gen_idx <= Len(constraints)
    /\ gen_constraint(constraints[gen_idx]) = PyNone
    /\ gen_lines' = Append(gen_lines, py_str(PyNone))
    /\ gen_idx' = gen_idx + 1
    /\ UNCHANGED <<gpc, interface_vars, eval_vars, sub_vars, parse_vars>>

\* the constraint is not applicable: nothing is appended
GenSkip ==
    /\ gpc = "running"
    /\ gen_idx <= Len(constraints)
    /\ gen_constraint(constraints[gen_idx]) = PyNone
    /\ gen_idx' = gen_idx + 1
    /\ UNCHANGED <<gen_lines, gpc, interface_vars, eval_vars, sub_vars, parse_vars>>

\* (the line had it been inserted at the front of the list)
GenAppendFront ==
    /\ gpc = "running"
    /\ gen_idx <= Len(constraints)
    /\ gen_constraint(constraints[gen_idx]) # PyNone
    /\ LET cstr_str == py_str(gen_constraint(constraints[gen_idx]))
           folded   == eval_expressions(variable_sub(cstr_str))
       IN  /\ folded.exc = "none"
           /\ gen_lines' = <<folded.val>> \o gen_lines
    /\ gen_idx' = gen_idx + 1
    /\ UNCHANGED <<gpc, interface_vars, eval_vars, sub_vars, parse_vars>>

\* substitute, then evaluate, then append
GenAppend ==
    /\ gpc = "running"
    /\ gen_idx <= Len(constraints)
    /\ gen_constraint(constraints[gen_idx]) # PyNone
    /\ LET cstr_str == py_str(gen_constraint(constraints[gen_idx]))
           folded   == eval_expressions(variable_sub(cstr_str))
       IN  /\ folded.exc = "none"
           /\ gen_lines' = Append(gen_lines, folded.val)
    /\ gen_idx' = gen_idx + 1
    /\ UNCHANGED <<gpc, interface_vars, eval_vars, sub_vars, parse_vars>>

\* eval_expressions raises: nothing catches it, the list is never returned
GenRaise ==
    /\ gpc = "running"
    /\ gen_idx <= Len(constraints)
    /\ gen_constraint(constraints[gen_idx]) # PyNone
    /\ LET cstr_str == py_str(gen_constraint(constraints[gen_idx]))
       IN  eval_expressions(variable_sub(cstr_str)).exc # "none"
    /\ gpc' = "raised"
    /\ UNCHANGED <<gen_idx, gen_lines, interface_vars, eval_vars, sub_vars, parse_vars>>

\* the loop is exhausted: return constraints
GenReturn ==
    /\ gpc = "running"
    /\ gen_idx > Len(constraints)
    /\ gpc' = "returned"
    /\ UNCHANGED <<gen_idx, gen_lines, interface_vars, eval_vars, sub_vars, parse_vars>>

Next == GenSkip \/ GenAppend \/ GenRaise \/ GenReturn

Spec == Init /\ [][Next]_vars

(***************************************************************************)
(* Vocabulary of the properties                                            *)
(***************************************************************************)
\* t occurs in s
Contains(s, t) == \E p \in 1..Len(s) : StartsWithAt(s, p, t)

\* a is a proper prefix of b
IsProperPrefix(a, b) == Len(a) < Len(b) /\ SubSeq(b, 1, Len(a)) = a

\* the four dicts in the order variable_sub visits them
Namespaces == [k \in 1..Len(PropOrder) |-> GetAttr(PropOrder[k])]

\* name is a key of the k-th dict
DefinedIn(k, name) == \E i \in 1..Len(Namespaces[k]) : Namespaces[k][i].name = name
Defined(name) == \E k \in DOMAIN Namespaces : DefinedIn(k, name)

\* the value stored under name in the k-th dict
ValueIn(k, name) ==
    Namespaces[k][CHOOSE i \in 1..Len(Namespaces[k]) : Namespaces[k][i].name = name].value

\* the first dict, in precedence order, that has the key
FirstDefining(name) == Min({k \in DOMAIN Namespaces : DefinedIn(k, name)})

\* the token $X stands at p in t: the marker, the name, then no name character
TokenAt(t, p, X) ==
    /\ StartsWithAt(t, p, <<"$">> \o X)
    /\ p + Len(X) = Len(t) \/ t[p + Len(X) + 1] \notin NameChars

\* t is literal text around one token $X, its only marker, at p
SoleTokenAt(t, p, X) ==
    /\ TokenAt(t, p, X)
    /\ \A i \in 1..Len(t) : t[i] = "$" => i = p

\* t with the token $X at p replaced by the text v
WithToken(t, p, X, v) == Slice(t, 1, p - 1) \o v \o Slice(t, p + Len(X) + 1, Len(t))

\* the names a token of a template can carry
TokenNames == StrsUpTo(NameChars, MaxTplLen) \ {<<>>}

\* s has no match of the pattern
NoMatch(s) == \A p \in 1..Len(s) : MatchEnd(s, p) = 0

\* some match of s fails to evaluate
HasFailingMatch(s) == \E k \in 1..Len(findall(s)) : EvalMatch(findall(s)[k]).exc # "none"

\* s with the span of each match replaced by that match's own value
RECURSIVE FoldSpansFrom(_, _)
FoldSpansStep(s, p, m) ==
    IF m > 0
    THEN EvalMatch(Slice(s, p, m)).val \o FoldSpansFrom(s, m + 1)
    ELSE <<s[p]>> \o FoldSpansFrom(s, p + 1)
FoldSpansFrom(s, p) ==
    IF p > Len(s) THEN <<>> ELSE FoldSpansStep(s, p, MatchEnd(s, p))
FoldSpans(s) == FoldSpansFrom(s, 1)

\* the i-th constraint produces a template
Applicable(i) == gen_constraint(constraints[i]) # PyNone
\* the template of the i-th constraint after substitution
SubstitutedOf(i) == variable_sub(py_str(gen_constraint(constraints[i])))
\* what evaluation makes of it
LineOf(i) == eval_expressions(SubstitutedOf(i))
\* the constraints gen_constraints has dealt with
Processed == 1..(gen_idx - 1)
\* the number of applicable constraints among the first i
Rank(i) == Cardinality({j \in 1..i : Applicable(j)})

\* the number of (kind, name, props) triples of the constraints section
RECURSIVE TriplesUpTo(_)
TriplesUpTo(k) == IF k = 0 THEN 0 ELSE TriplesUpTo(k - 1) + Len(from_yaml[k].names)

(***************************************************************************)
(* Properties                                                              *)
(***************************************************************************)

\* C1 (as claimed): a name N held by an earlier and a later namespace with
\* different values: a template whose one token is $N comes back with the
\* token replaced by the string form of the earliest namespace's value.
C1_Precedence ==
    spc = "done" =>
        \A N \in VarNames : \A p \in 1..Len(raw_constraint) :
            (/\ SoleTokenAt(raw_constraint, p, N)
             /\ Defined(N)
             /\ \E l \in DOMAIN Namespaces :
                   /\ FirstDefining(N) < l
                   /\ DefinedIn(l, N)
                   /\ ValueIn(FirstDefining(N), N) # ValueIn(l, N))
            => substituted = WithToken(raw_constraint, p, N,
                                       py_str(ValueIn(FirstDefining(N), N)))

\* C4 (as claimed): a token $X whose name X is a key of none of the four
\* namespaces is still in the returned string, verbatim.
C4_UnresolvedPassThrough ==
    spc = "done" =>
        \A X \in TokenNames : \A p \in 1..Len(raw_constraint) :
            (TokenAt(raw_constraint, p, X) /\ ~Defined(X))
            => Contains(substituted, <<"$">> \o X)

\* C8 (as claimed): A and AB are both defined and A is a proper prefix of AB:
\* a template whose one token is $AB comes back with the token replaced by
\* the string form of AB's value.
C8_LongestName ==
    spc = "done" =>
        \A A \in VarNames, AB \in VarNames : \A p \in 1..Len(raw_constraint) :
            (/\ IsProperPrefix(A, AB)
             /\ Defined(A) /\ Defined(AB)
             /\ SoleTokenAt(raw_constraint, p, AB))
            => substituted = WithToken(raw_constraint, p, AB,
                                       py_str(ValueIn(FirstDefining(AB), AB)))

\* C9 (as claimed): with several matches in the input, the result is the
\* input with the span of each match replaced by that match's own value,
\* every other character unchanged.
C9_IndependentMatches ==
    (epc = "once" /\ Len(findall(constraint)) >= 2)
    => evaluated.val = FoldSpans(constraint)

C2_OrderPreserved ==
    gpc # "idle" =>
        \A i \in Processed, j \in Processed :
            (i < j /\ Applicable(i) /\ Applicable(j))
            => /\ Rank(i) < Rank(j)
               /\ Rank(j) <= Len(gen_lines)
               /\ gen_lines[Rank(i)] = LineOf(i).val
               /\ gen_lines[Rank(j)] = LineOf(j).val

\* C2 witness: gen_constraints returned the differing lines of two
\* applicable constraints.
C2_Witness ==
    /\ gpc = "returned"
    /\ \E i \in Processed, j \in Processed :
          /\ i < j /\ Applicable(i) /\ Applicable(j)
          /\ LineOf(i).val # LineOf(j).val

\* C3: an inapplicable constraint adds no line and raises nothing; every
\* applicable constraint dealt with adds exactly one line, so the returned
\* list has as many lines as there are applicable constraints.
C3_NotApplicableSkipped ==
    gpc # "idle" =>
        /\ Len(gen_lines) = Cardinality({i \in Processed : Applicable(i)})
        /\ gpc = "raised" => Applicable(gen_idx)
        /\ gpc = "returned" => Processed = DOMAIN constraints

\* C3 witness: gen_constraints returned for an interface with an
\* inapplicable and an applicable constraint.
C3_Witness ==
    /\ gpc = "returned"
    /\ \E i \in DOMAIN constraints : ~Applicable(i)
    /\ \E i \in DOMAIN constraints : Applicable(i)

\* C6: an applicable constraint whose substituted template has a match that
\* fails to evaluate makes eval_expressions raise, and gen_constraints never
\* gets past it nor returns.
C6_FoldErrorPropagates ==
    gpc # "idle" =>
        \A i \in DOMAIN constraints :
            (Applicable(i) /\ HasFailingMatch(SubstitutedOf(i)))
            => /\ LineOf(i).exc # "none"
               /\ gen_idx <= i
               /\ gpc # "returned"

\* C6 witness: gen_constraints was left by the exception of a division by
\* zero in the substituted template.
C6_Witness ==
    /\ gpc = "raised"
    /\ HasFailingMatch(SubstitutedOf(gen_idx))
    /\ LineOf(gen_idx).exc = "ZeroDivisionError"

\* C7 (as claimed): the line of every applicable constraint dealt with is its
\* substituted template with each match of the pattern replaced by the value
\* of exactly that match, rounded to 2 decimal places.
C7_NumericFolding ==
    gpc # "idle" =>
        \A i \in Processed :
            Applicable(i) => gen_lines[Rank(i)] = FoldSpans(SubstitutedOf(i))

\* C5 (as claimed): a constraints section naming a kind the registry does
\* not know never ends in a loaded Interface.
C5_UnknownKindFails ==
    (\E k \in DOMAIN from_yaml : from_yaml[k].kind \notin RegisteredKinds)
    => ppc # "loaded"

\* C5 (what the parser does guarantee): a constraints section with at least
\* one constraint under a kind the registry does not know never ends in a
\* loaded Interface: the parser never gets past such a constraint, the abort
\* leaves no Interface behind, and a load that succeeds has kept every
\* constraint of the section.
C5_UnknownKindWithConstraintFails ==
    ppc # "idle" =>
        /\ \A k \in DOMAIN from_yaml :
              (from_yaml[k].kind \notin RegisteredKinds /\ from_yaml[k].names # <<>>)
              => /\ ppc # "loaded"
                 /\ kind_idx <= k
                 /\ kind_idx = k => name_idx = 1
        /\ ppc = "loaded" => Len(constraints) = TriplesUpTo(Len(from_yaml))
        /\ ppc = "raised" => constraints = <<>> /\ part_constants = <<>>

====
